---- MODULE Spec2Model ----
(***************************************************************************)
(* A model of the random sentence generator of assn-1-rsg/rsg.cc:          *)
(* readGrammar fills a map from nonterminal to Definition, generateText    *)
(* draws a production of "<start>" and expands it numberOfVersions times   *)
(* with buildTextVector, whose recursion is modelled by an explicit stack  *)
(* of (production, current) frames. A frame also records the call that     *)
(* made it: the nonterminal expanded and the position of the random source *)
(* at its draw.                                                            *)
(*                                                                         *)
(* A word is a sequence of one-character strings, a production (and a line *)
(* of the grammar file) a sequence of words, the file a sequence of lines. *)
(* The random source is a periodic tape of numbers read at position pos.   *)
(***************************************************************************)
EXTENDS Integers, Sequences, FiniteSets, TLC

VARIABLES
    source,        \* the definition blocks the grammar file was written from
    tape,          \* the numbers the random source yields, periodically
    input,         \* infile: the lines of the grammar file not yet read
    grammar,       \* map<string, Definition>
    sizeReported,  \* grammar.size() as main prints it, -1 before
    pc,            \* where the program is
    pos,           \* position of the random source on the tape
    production,    \* generateText: the production drawn for "<start>"
    i,             \* generateText: the loop counter
    text,          \* generateText: the vector the current version is built in
    stack,         \* the active calls of buildTextVector, outermost first
    versionPos,    \* position of the random source when the version began
    emitted,       \* what was printed: the versions, in order
    failure        \* the exception that ended the run, "none" if none

vars == <<source, tape, input, grammar, sizeReported, pc, pos, production, i,
          text, stack, versionPos, emitted, failure>>

----------------------------------------------------------------------------
(* Bounds of the model *)

(* The most definition blocks a grammar file holds. *)
MaxBlocks == 3

(* The period of the random source. *)
TapeLen == 3

RandValues == 0..1

(* rsg.cc:128 *)
numberOfVersions == 3

----------------------------------------------------------------------------
(* Words *)

startNonTerminal == <<"<", "s", "t", "a", "r", "t", ">">>

animal == <<"<", "a", "n", "i", "m", "a", "l", ">">>

thing == <<"<", "t", "h", "i", "n", "g", ">">>

The == <<"T", "h", "e">>

cat == <<"c", "a", "t">>

dog == <<"d", "o", "g">>

sat == <<"s", "a", "t">>

dot == <<".">>

hi == <<"h", "i">>

big == <<"b", "i", "g">>

xlty == <<"x", "<", "y">>

OpenBrace == <<"{">>

CloseBrace == <<"}">>

JunkLine == << <<"#">>, <<"n", "o", "t", "e">> >>

Digits == <<"0", "1", "2", "3", "4", "5", "6", "7", "8", "9">>

----------------------------------------------------------------------------
(* The grammar file *)

Pool ==
    { [junk |-> <<>>, nonterminal |-> startNonTerminal,
       productions |-> << <<The, animal, sat, dot>> >>],
      [junk |-> <<JunkLine>>, nonterminal |-> animal,
       productions |-> << <<cat>>, <<dog>> >>],
      [junk |-> <<>>, nonterminal |-> startNonTerminal,
       productions |-> << <<hi, animal>>, <<thing>> >>],
      [junk |-> <<JunkLine>>, nonterminal |-> animal,
       productions |-> << <<big, cat>>, <<thing>> >>],
      [junk |-> <<>>, nonterminal |-> thing,
       productions |-> << <<animal, xlty>> >>] }

BlockSeqs == UNION {[1..n -> Pool] : n \in 0..MaxBlocks}

Numeral(n) == <<Digits[n + 1]>>

RenderBlock(b) ==
    b.junk \o << <<OpenBrace>>, <<b.nonterminal>>, <<Numeral(Len(b.productions))>> >>
           \o b.productions \o << <<CloseBrace>> >>

RECURSIVE Render(_)
Render(bl) ==
    IF bl = <<>> THEN <<JunkLine>>
    ELSE RenderBlock(Head(bl)) \o Render(Tail(bl))

DigitValue(c) == CHOOSE d \in 0..9 : Digits[d + 1] = c

RECURSIVE ParseInt(_)
ParseInt(word) ==
    IF word = <<>> THEN 0
    ELSE 10 * ParseInt(SubSeq(word, 1, Len(word) - 1)) + DigitValue(word[Len(word)])

----------------------------------------------------------------------------
(* readGrammar *)

RECURSIVE SkipToBrace(_)
SkipToBrace(in) ==
    IF in = <<>> THEN <<>>
    ELSE IF Head(in) = <<OpenBrace>> THEN in
    ELSE SkipToBrace(Tail(in))

DefinitionCtor(in) ==
    LET k == ParseInt(in[3][1])
    IN  [definition |-> [nonterminal |-> in[2][1],
                         possibleExpansions |-> SubSeq(in, 4, 3 + k)],
         rest |-> SubSeq(in, 5 + k, Len(in))]

StoreFirstWins(g, def) ==
    [n \in DOMAIN g \cup {def.nonterminal} |->
        IF n \in DOMAIN g THEN g[n] ELSE def]

Store(g, def) ==
    [n \in DOMAIN g \cup {def.nonterminal} |->
        IF n = def.nonterminal THEN def ELSE g[n]]

ReadDefinition ==
    /\ pc = "readGrammar"
    /\ SkipToBrace(input) # <<>>
    /\ LET d == DefinitionCtor(SkipToBrace(input))
       IN  /\ grammar' = Store(grammar, d.definition)
           /\ input' = d.rest
    /\ UNCHANGED <<source, tape, sizeReported, pc, pos, production, i, text,
                   stack, versionPos, emitted, failure>>

ReadGrammarEof ==
    /\ pc = "readGrammar"
    /\ SkipToBrace(input) = <<>>
    /\ input' = <<>>
    /\ pc' = "report"
    /\ UNCHANGED <<source, tape, grammar, sizeReported, pos, production, i, text,
                   stack, versionPos, emitted, failure>>

MainReport ==
    /\ pc = "report"
    /\ sizeReported' = Cardinality(DOMAIN grammar)
    /\ pc' = "generateText"
    /\ UNCHANGED <<source, tape, input, grammar, pos, production, i, text,
                   stack, versionPos, emitted, failure>>

----------------------------------------------------------------------------
(* The random source and the lookups *)

NextPos(p) == (p % TapeLen) + 1

getRandomProduction(definition, r) ==
    definition.possibleExpansions[(r % Len(definition.possibleExpansions)) + 1]

NewProduction(definition) == getRandomProduction(definition, tape[pos])

isTerminalSecondChar(word) == IF Len(word) >= 2 THEN word[2] # "<" ELSE TRUE

(* word.at(0) != '<'; the words of a production are never empty. *)
isTerminal(word) == word[1] # "<"

AtOrEmpty(g, word) ==
    IF word \in DOMAIN g
    THEN [thrown |-> FALSE, definition |-> g[word]]
    ELSE [thrown |-> FALSE,
          definition |-> [nonterminal |-> word, possibleExpansions |-> << <<>> >>]]

At(g, word) ==
    IF word \in DOMAIN g
    THEN [thrown |-> FALSE, definition |-> g[word]]
    ELSE [thrown |-> TRUE]

GrammarAfterIndex(g, word) ==
    IF word \in DOMAIN g THEN g
    ELSE [n \in DOMAIN g \cup {word} |->
            IF n = word THEN [nonterminal |-> <<>>, possibleExpansions |-> <<>>]
            ELSE g[n]]

GrammarAfterAt(g, word) == g

out_of_range == "out_of_range"

----------------------------------------------------------------------------
(* generateText *)

GenerateTextLookup ==
    /\ pc = "generateText"
    /\ ~At(grammar, startNonTerminal).thrown
    /\ production' = NewProduction(At(grammar, startNonTerminal).definition)
    /\ pos' = NextPos(pos)
    /\ grammar' = GrammarAfterAt(grammar, startNonTerminal)
    /\ i' = 0
    /\ pc' = "loop"
    /\ UNCHANGED <<source, tape, input, sizeReported, text, stack, versionPos,
                   emitted, failure>>

GenerateTextThrow ==
    /\ pc = "generateText"
    /\ At(grammar, startNonTerminal).thrown
    /\ grammar' = GrammarAfterAt(grammar, startNonTerminal)
    /\ failure' = out_of_range
    /\ pc' = "error"
    /\ UNCHANGED <<source, tape, input, sizeReported, pos, production, i, text,
                   stack, versionPos, emitted>>

LoopContinues(n) == n < numberOfVersions

BeginVersion ==
    /\ pc = "loop"
    /\ LoopContinues(i)
    /\ text' = <<>>
    /\ stack' = <<[production |-> production, current |-> 1, call |-> <<>>]>>
    /\ versionPos' = pos
    /\ pc' = "build"
    /\ UNCHANGED <<source, tape, input, grammar, sizeReported, pos, production, i,
                   emitted, failure>>

GenerateTextReturn ==
    /\ pc = "loop"
    /\ ~LoopContinues(i)
    /\ pc' = "done"
    /\ UNCHANGED <<source, tape, input, grammar, sizeReported, pos, production, i,
                   text, stack, versionPos, emitted, failure>>

VersionLabelZeroBased(n) == n

VersionLabel(n) == n + 1

PrintVersion ==
    /\ pc = "print"
    /\ emitted' = Append(emitted, [version |-> VersionLabel(i), text |-> text])
    /\ i' = i + 1
    /\ pc' = "loop"
    /\ UNCHANGED <<source, tape, input, grammar, sizeReported, pos, production,
                   text, stack, versionPos, failure>>

----------------------------------------------------------------------------
(* buildTextVector *)

Top == stack[Len(stack)]

AtEnd == Top.current > Len(Top.production)

Word == Top.production[Top.current]

Advance(frame) == [frame EXCEPT !.current = @ + 1]

PushFront(t, word) == <<word>> \o t

PushBack(t, word) == Append(t, word)

CalleeFrameSelf(newProduction, callerProduction, call) ==
    [production |-> callerProduction, current |-> 1, call |-> call]

CalleeFrame(newProduction, callerProduction, call) ==
    [production |-> newProduction, current |-> 1, call |-> call]

(* The call about to be made is already active, made with the random      *)
(* source in the same position. A call's course is a function of its       *)
(* nonterminal, the grammar and the random source, so this call meets      *)
(* itself again and again: the recursion of line 90, which nothing guards, *)
(* never returns.                                                          *)
RecursForever(word, p) ==
    \E k \in 1..Len(stack) : stack[k].call = <<word, p>>

EmittedWithPartial(out, n, t) == Append(out, [version |-> n + 1, text |-> t])

EmittedAfterThrow(out, n, t) == out

AppendTerminal ==
    /\ pc = "build"
    /\ ~AtEnd
    /\ isTerminal(Word)
    /\ text' = PushBack(text, Word)
    /\ stack' = [stack EXCEPT ![Len(stack)] = Advance(@)]
    /\ UNCHANGED <<source, tape, input, grammar, sizeReported, pc, pos, production,
                   i, versionPos, emitted, failure>>

ExpandNonterminal ==
    /\ pc = "build"
    /\ ~AtEnd
    /\ ~isTerminal(Word)
    /\ ~At(grammar, Word).thrown
    /\ ~RecursForever(Word, pos)
    /\ stack' = Append(stack,
                       CalleeFrame(NewProduction(At(grammar, Word).definition),
                                   Top.production, <<Word, pos>>))
    /\ pos' = NextPos(pos)
    /\ grammar' = GrammarAfterAt(grammar, Word)
    /\ UNCHANGED <<source, tape, input, sizeReported, pc, production, i, text,
                   versionPos, emitted, failure>>

(* grammar.at(word) throws; nothing catches it, so the locals text and the *)
(* frames are gone and line 135-137 is never reached for this version.     *)
ExpandThrow ==
    /\ pc = "build"
    /\ ~AtEnd
    /\ ~isTerminal(Word)
    /\ At(grammar, Word).thrown
    /\ grammar' = GrammarAfterAt(grammar, Word)
    /\ emitted' = EmittedAfterThrow(emitted, i, text)
    /\ failure' = out_of_range
    /\ text' = <<>>
    /\ stack' = <<>>
    /\ pc' = "error"
    /\ UNCHANGED <<source, tape, input, sizeReported, pos, production, i,
                   versionPos>>

(* The unbounded recursion, taken to its end in one step: the calls nest    *)
(* until the host's call stack is exhausted and the process dies; text is  *)
(* local and nothing more is printed.                                      *)
StackOverflow ==
    /\ pc = "build"
    /\ ~AtEnd
    /\ ~isTerminal(Word)
    /\ ~At(grammar, Word).thrown
    /\ RecursForever(Word, pos)
    /\ text' = <<>>
    /\ stack' = <<>>
    /\ pc' = "overflow"
    /\ UNCHANGED <<source, tape, input, grammar, sizeReported, pos, production, i,
                   versionPos, emitted, failure>>

ReturnNested ==
    /\ pc = "build"
    /\ AtEnd
    /\ Len(stack) > 1
    /\ stack' = [SubSeq(stack, 1, Len(stack) - 1)
                    EXCEPT ![Len(stack) - 1] = Advance(@)]
    /\ UNCHANGED <<source, tape, input, grammar, sizeReported, pc, pos, production,
                   i, text, versionPos, emitted, failure>>

ReturnToGenerateText ==
    /\ pc = "build"
    /\ AtEnd
    /\ Len(stack) = 1
    /\ stack' = <<>>
    /\ pc' = "print"
    /\ UNCHANGED <<source, tape, input, grammar, sizeReported, pos, production, i,
                   text, versionPos, emitted, failure>>

----------------------------------------------------------------------------
(* The program, from the start of main's readGrammar call *)

Init ==
    /\ source \in BlockSeqs
    /\ tape \in [1..TapeLen -> RandValues]
    /\ input = Render(source)
    /\ grammar = <<>>
    /\ sizeReported = -1
    /\ pc = "readGrammar"
    /\ pos = 1
    /\ production = <<>>
    /\ i = 0
    /\ text = <<>>
    /\ stack = <<>>
    /\ versionPos = 1
    /\ emitted = <<>>
    /\ failure = "none"

Next ==
    \/ ReadDefinition
    \/ ReadGrammarEof
    \/ MainReport
    \/ GenerateTextLookup
    \/ GenerateTextThrow
    \/ BeginVersion
    \/ GenerateTextReturn
    \/ PrintVersion
    \/ AppendTerminal
    \/ ExpandNonterminal
    \/ ExpandThrow
    \/ StackOverflow
    \/ ReturnNested
    \/ ReturnToGenerateText

Spec == Init /\ [][Next]_vars

(* The program runs to its end: it is sequential and nothing suspends it. *)
LiveSpec == Init /\ [][Next]_vars /\ WF_vars(Next)

Finished == pc \in {"done", "error", "overflow"}

----------------------------------------------------------------------------
(* Reference definitions the properties are stated with *)

BeginsWithLess(word) == word[1] = "<"

AllTerminal(t) == \A k \in 1..Len(t) : ~BeginsWithLess(t[k])

HasNonterminal(p) == \E k \in 1..Len(p) : BeginsWithLess(p[k])

(* The left-to-right expansion of production p with the random source at   *)
(* position q: the words it yields and where it leaves the random source.  *)
RECURSIVE RefExpand(_, _)
RefExpand(p, q) ==
    IF p = <<>> THEN [text |-> <<>>, pos |-> q]
    ELSE IF ~BeginsWithLess(Head(p))
    THEN LET rest == RefExpand(Tail(p), q)
         IN  [text |-> <<Head(p)>> \o rest.text, pos |-> rest.pos]
    ELSE LET alts == grammar[Head(p)].possibleExpansions
             sub == RefExpand(alts[(tape[q] % Len(alts)) + 1], (q % TapeLen) + 1)
             rest == RefExpand(Tail(p), sub.pos)
         IN  [text |-> sub.text \o rest.text, pos |-> rest.pos]

ExampleSource ==
    << [junk |-> <<>>, nonterminal |-> startNonTerminal,
        productions |-> << <<The, animal, sat, dot>> >>],
       [junk |-> <<JunkLine>>, nonterminal |-> animal,
        productions |-> << <<cat>>, <<dog>> >>] >>

Names(bl) == {bl[k].nonterminal : k \in 1..Len(bl)}

LastIndex(bl, n) ==
    CHOOSE k \in 1..Len(bl) :
        /\ bl[k].nonterminal = n
        /\ \A j \in (k + 1)..Len(bl) : bl[j].nonterminal # n

Refs(g, n) ==
    UNION {{g[n].possibleExpansions[a][k] :
                k \in {k \in 1..Len(g[n].possibleExpansions[a]) :
                          BeginsWithLess(g[n].possibleExpansions[a][k])}} :
             a \in 1..Len(g[n].possibleExpansions)}

RECURSIVE ReachFrom(_, _)
ReachFrom(g, S) ==
    LET T == S \cup UNION {Refs(g, n) : n \in S \cap DOMAIN g}
    IN  IF T = S THEN S ELSE ReachFrom(g, T)

Closed(g) ==
    /\ startNonTerminal \in DOMAIN g
    /\ \A n \in DOMAIN g : Refs(g, n) \subseteq DOMAIN g

Acyclic(g) == \A n \in DOMAIN g : n \notin ReachFrom(g, Refs(g, n))

LookupMissing ==
    \/ pc = "generateText" /\ startNonTerminal \notin DOMAIN grammar
    \/ /\ pc = "build"
       /\ ~AtEnd
       /\ BeginsWithLess(Word)
       /\ Word \notin DOMAIN grammar

----------------------------------------------------------------------------
(* Properties *)

(* C1: every token of the text being built and of every emitted version is *)
(* a terminal: none begins with '<'.                                       *)
C1_OnlyTerminals ==
    /\ AllTerminal(text)
    /\ \A k \in 1..Len(emitted) : AllTerminal(emitted[k].text)

C1_Witness ==
    /\ pc = "done"
    /\ HasNonterminal(production)
    /\ \E k \in 1..Len(emitted) : xlty \in {emitted[k].text[j] : j \in 1..Len(emitted[k].text)}

(* C2: when buildTextVector returns to generateText, text is the in-order  *)
(* concatenation of the terminals and of the expansions of the alternatives*)
(* chosen for the nonterminals, and the random source stands where the     *)
(* reference expansion leaves it; on the example grammar with a source     *)
(* that always picks index 0 the text is The, cat, sat, . .                *)
C2_ExpandIsLeftToRight ==
    pc = "print" =>
        /\ text = RefExpand(production, versionPos).text
        /\ pos = RefExpand(production, versionPos).pos
        /\ (source = ExampleSource /\ (\A q \in 1..TapeLen : tape[q] = 0))
              => text = <<The, cat, sat, dot>>

C2_Witness ==
    /\ pc = "print"
    /\ source = ExampleSource
    /\ text = <<The, cat, sat, dot>>

(* C3: each repetition of generateText's loop makes its own random choice  *)
(* of a production of the start Definition: a repetition after the first   *)
(* expands the production the random source yields when it begins, not the *)
(* one drawn before the loop.                                              *)
C3_FreshStartChoicePerVersion ==
    [][(BeginVersion /\ i >= 1) =>
          stack'[1].production = NewProduction(grammar[startNonTerminal])]_vars

(* C4: a lookup of a nonterminal that has no entry in the grammar, be it   *)
(* the start symbol or a nested reference, ends the run with the lookup's  *)
(* exception; the token is neither skipped nor emitted.                    *)
C4_MissingNonterminalFails ==
    [][LookupMissing =>
          /\ pc' = "error"
          /\ failure' = out_of_range
          /\ emitted' = emitted]_vars

C4_Witness ==
    /\ pc = "error"
    /\ failure = out_of_range
    /\ startNonTerminal \in DOMAIN grammar

(* C6: after readGrammar the grammar has one entry per distinct            *)
(* nonterminal of the file's blocks (as many entries as blocks when the    *)
(* names are distinct), and the entry of a name is the last block of that  *)
(* name.                                                                   *)
C6_LastWriteWins ==
    pc # "readGrammar" =>
        /\ DOMAIN grammar = Names(source)
        /\ \A n \in Names(source) :
              grammar[n] = [nonterminal |-> n,
                            possibleExpansions |->
                                source[LastIndex(source, n)].productions]
        /\ Cardinality(Names(source)) = Len(source)
              => Cardinality(DOMAIN grammar) = Len(source)

C6_Witness ==
    /\ pc = "report"
    /\ Len(source) = 3
    /\ source[1].nonterminal = source[3].nonterminal
    /\ source[1].productions # source[3].productions
    /\ source[2].nonterminal # source[1].nonterminal

(* C7: the versions are emitted in order with the labels 1, 2, ..., and a  *)
(* run of generateText that returns has emitted exactly numberOfVersions.  *)
C7_VersionsNumbered ==
    /\ \A k \in 1..Len(emitted) : emitted[k].version = k
    /\ Len(emitted) <= numberOfVersions
    /\ pc = "done" => Len(emitted) = numberOfVersions

C7_Witness ==
    /\ pc = "done"
    /\ Len(emitted) = 3
    /\ emitted[3].text # <<>>

(* C8: a run that an undefined nonterminal ended is in the error outcome,  *)
(* goes no further, and has emitted only the versions completed before:    *)
(* nothing of the version that failed.                                     *)
C8_NoPartialVersion ==
    pc = "error" =>
        /\ failure = out_of_range
        /\ Len(emitted) = i
        /\ i < numberOfVersions
        /\ ~ENABLED Next

C8_Witness ==
    /\ pc = "error"
    /\ Len(emitted) >= 1

(* C9: once readGrammar has returned, no step changes the grammar.         *)
C9_GrammarReadOnly ==
    [][pc # "readGrammar" => grammar' = grammar]_vars

C9_Witness ==
    /\ pc = "done"
    /\ Cardinality(DOMAIN grammar) >= 2

(* C10: on a grammar whose references are all defined and in which no      *)
(* nonterminal reaches itself, every call of buildTextVector from          *)
(* generateText returns; the recursion never returns (and exhausts the     *)
(* stack) only on a grammar with a reference cycle, and there, for some    *)
(* choices of the random source, it does.                                  *)
C10_TerminationByStructure ==
    /\ [](pc = "build" /\ Closed(grammar) /\ Acyclic(grammar) => <>(pc = "print"))
    /\ [](pc = "overflow" => ~Acyclic(grammar))

C10_Witness ==
    /\ pc = "overflow"
    /\ ~Acyclic(grammar)

====
